---- MODULE Spec2Model ----
(***************************************************************************)
(* Record layout of the structures declared in alignments.cpp.             *)
(*                                                                         *)
(* The program declares plain structures under several #pragma pack        *)
(* settings and prints sizeof() of each, the addresses of the fields and   *)
(* the padding between them.  The model lays a structure out field by      *)
(* field, in declaration order, the way the build lays out a               *)
(* standard-layout structure: each member goes to the next offset that is  *)
(* a multiple of its alignment, the alignment of a member is its type's    *)
(* alignment lowered to the pack value in force, and the structure's size  *)
(* is rounded up to the largest member alignment.                          *)
(***************************************************************************)
EXTENDS Integers, Sequences, FiniteSets, TLC

VARIABLES fields, packCap, cursor, offsets, pads, recordAlignment, totalSize, pc

vars == <<fields, packCap, cursor, offsets, pads, recordAlignment, totalSize, pc>>

(***************************************************************************)
(* Member types used by the declarations: size and alignment in bytes.     *)
(* An array member has the size of all its elements and the alignment of   *)
(* one element.                                                            *)
(***************************************************************************)
Char == [size |-> 1, align |-> 1]

Bool == [size |-> 1, align |-> 1]

Short == [size |-> 2, align |-> 2]

IntType == [size |-> 4, align |-> 4]

Double == [size |-> 8, align |-> 8]

LongLong == [size |-> 8, align |-> 8]

CharArray3 == [size |-> 3 * Char.size, align |-> Char.align]

CharArray8 == [size |-> 8 * Char.size, align |-> Char.align]

CharArray16 == [size |-> 16 * Char.size, align |-> Char.align]

\* #pragma pack() : no pack value in force, members keep their own alignment.
NoPack == 0

\* The pack values the layout accepts: none, or 1, 2, 4, 8.
PackCaps == {NoPack, 1, 2, 4, 8}

(***************************************************************************)
(* The declared structures, members in declaration order.                  *)
(***************************************************************************)
DefaultAlignment == [fields |-> <<Char, IntType, Double, Char>>, pack |-> NoPack]

OptimizedAlignment == [fields |-> <<Double, IntType, Char, Char>>, pack |-> NoPack]

PackedStruct == [fields |-> <<Char, IntType, Double, Char, Short>>, pack |-> 1]

TwoByteAligned == [fields |-> <<Char, IntType, Double, Char, Short>>, pack |-> 2]

FourByteAligned == [fields |-> <<Char, IntType, Double, Char, Short>>, pack |-> 4]

NetworkHeader == [fields |-> <<Char, Char, Short, IntType, IntType, CharArray16>>, pack |-> 1]

BitmapHeader == [fields |-> <<Short, IntType, Short, Short, IntType, IntType, IntType, IntType>>, pack |-> 1]

MixedTypes == [fields |-> <<Bool, Double, Char, Short, LongLong, CharArray3>>, pack |-> NoPack]

MixedTypesPacked == [fields |-> <<Bool, Double, Char, Short, LongLong, CharArray3>>, pack |-> 1]

ARMOptimized == [fields |-> <<IntType, Short, IntType, CharArray8>>, pack |-> 4]

X86Optimized == [fields |-> <<LongLong, IntType, Short, CharArray8>>, pack |-> NoPack]

DeclaredStructs ==
    { DefaultAlignment, OptimizedAlignment, PackedStruct, TwoByteAligned,
      FourByteAligned, NetworkHeader, BitmapHeader, MixedTypes,
      MixedTypesPacked, ARMOptimized, X86Optimized }

(***************************************************************************)
(* Bounds of the exploration: structures of up to MaxFields members drawn  *)
(* from FieldTypes, under every pack value, besides the declared ones.     *)
(***************************************************************************)
MaxFields == 4

FieldTypes == {Char, Short, IntType, Double, CharArray3}

BoundedStructs ==
    { [fields |-> fs, pack |-> p] :
        fs \in UNION { [1..n -> FieldTypes] : n \in 1..MaxFields },
        p \in PackCaps }

Min(a, b) == IF a <= b THEN a ELSE b

Max(a, b) == IF a >= b THEN a ELSE b

(***************************************************************************)
(* The layout rules.                                                       *)
(***************************************************************************)
\* Faulty variants of EffectiveAlignment, used to show that the properties depend on it.
EffectiveAlignmentIgnoringPack(f, cap) == f.align

EffectiveAlignmentForcedToPack(f, cap) == IF cap = NoPack THEN f.align ELSE cap

EffectiveAlignmentOfWholeArray(f, cap) ==
    IF cap = NoPack THEN f.size ELSE Min(f.size, cap)

\* The alignment of a member: its type's alignment, lowered to the pack value.
EffectiveAlignment(f, cap) ==
    IF cap = NoPack THEN f.align ELSE Min(f.align, cap)

\* Faulty variants of Padding, used to show that the properties depend on it.
PaddingNone(c, a) == 0

PaddingRoundedDown(c, a) == IF c % a = 0 THEN 0 ELSE a - 1

\* Bytes skipped from offset c to reach the next multiple of a.
Padding(c, a) == (a - (c % a)) % a

\* Faulty variant of NextCursor: an array advances by one element only.
NextCursorOneElement(off, f) == off + f.align

\* The offset just past a member placed at off.
NextCursor(off, f) == off + f.size

\* Faulty variant of NextAlignment: the last member's alignment wins.
NextAlignmentOfLast(ra, a) == a

\* The structure's alignment after a member of alignment a.
NextAlignment(ra, a) == Max(ra, a)

\* Faulty variant of SizeOf: the size is the end of the last member.
SizeOfUnpadded(c, ra) == c

\* sizeof: the end of the last member rounded up to the structure's alignment.
SizeOf(c, ra) == c + Padding(c, ra)

RECURSIVE LayoutFrom(_, _, _, _, _, _, _)
LayoutFrom(fs, cap, i, c, offs, pd, ra) ==
    IF i > Len(fs)
    THEN [offsets |-> offs, pads |-> pd, recordAlignment |-> ra,
          end |-> c, totalSize |-> SizeOf(c, ra)]
    ELSE LET a == EffectiveAlignment(fs[i], cap)
             p == Padding(c, a)
         IN LayoutFrom(fs, cap, i + 1, NextCursor(c + p, fs[i]),
                       Append(offs, c + p), Append(pd, p), NextAlignment(ra, a))

\* The whole layout of the members fs under pack value cap.
ComputeLayout(fs, cap) == LayoutFrom(fs, cap, 1, 0, <<>>, <<>>, 1)

\* Padding after member i of a finished layout, as the program measures it:
\* the distance to the next member less the member's own size.
PaddingAfter(i) ==
    IF i < Len(fields)
    THEN offsets[i + 1] - offsets[i] - fields[i].size
    ELSE totalSize - offsets[i] - fields[i].size

(***************************************************************************)
(* The state machine: one structure is laid out member by member.          *)
(***************************************************************************)
TypeOK ==
    /\ fields \in Seq(FieldTypes \cup {Bool, LongLong, CharArray8, CharArray16})
    /\ packCap \in PackCaps
    /\ cursor \in Nat
    /\ offsets \in Seq(Nat)
    /\ pads \in Seq(Nat)
    /\ recordAlignment \in {1, 2, 4, 8}
    /\ totalSize \in Nat
    /\ pc \in {"layout", "done"}

Init ==
    /\ \E s \in DeclaredStructs \cup BoundedStructs :
          /\ fields = s.fields
          /\ packCap = s.pack
    /\ cursor = 0
    /\ offsets = <<>>
    /\ pads = <<>>
    /\ recordAlignment = 1
    /\ totalSize = 0
    /\ pc = "layout"

\* The next member in declaration order is placed.
PlaceField ==
    /\ pc = "layout"
    /\ Len(offsets) < Len(fields)
    /\ LET f == fields[Len(offsets) + 1]
           a == EffectiveAlignment(f, packCap)
           p == Padding(cursor, a)
       IN /\ pads' = Append(pads, p)
          /\ offsets' = Append(offsets, cursor + p)
          /\ cursor' = NextCursor(cursor + p, f)
          /\ recordAlignment' = NextAlignment(recordAlignment, a)
    /\ UNCHANGED <<fields, packCap, totalSize, pc>>

\* All members are placed: the structure's size is fixed.
Finish ==
    /\ pc = "layout"
    /\ Len(offsets) = Len(fields)
    /\ totalSize' = SizeOf(cursor, recordAlignment)
    /\ pc' = "done"
    /\ UNCHANGED <<fields, packCap, cursor, offsets, pads, recordAlignment>>

Next == PlaceField \/ Finish

Spec == Init /\ [][Next]_vars

(***************************************************************************)
(* Properties of the layout.                                               *)
(***************************************************************************)
Placed == 1..Len(offsets)

RECURSIVE SumSizes(_, _)
SumSizes(fs, n) == IF n = 0 THEN 0 ELSE SumSizes(fs, n - 1) + fs[n].size

\* C1: the offset of every placed field is a multiple of its effective
\* alignment: its natural alignment when no pack value is set, the smaller of
\* its natural alignment and the pack value otherwise.
OffsetsAligned ==
    \A i \in Placed :
        LET a == IF packCap = NoPack
                 THEN fields[i].align
                 ELSE Min(fields[i].align, packCap)
        IN offsets[i] % a = 0

\* A finished layout under a pack value in which padding was needed to align a field.
OffsetsAlignedWitness ==
    /\ pc = "done"
    /\ packCap = 2
    /\ \E i \in Placed : pads[i] > 0 /\ fields[i].align > packCap

\* C2: adjacent fields never overlap and follow declaration order:
\* offset[i] + size[i] <= offset[i+1], whatever the pack value.
NoOverlap ==
    /\ Len(offsets) <= Len(fields)
    /\ \A i \in Placed :
          i + 1 \in Placed => offsets[i] + fields[i].size <= offsets[i + 1]

\* A finished layout with an array field directly followed by another field,
\* and a gap between two other adjacent fields.
NoOverlapWitness ==
    /\ pc = "done"
    /\ \E i \in Placed :
          /\ i + 1 \in Placed
          /\ fields[i] = CharArray3
          /\ offsets[i] + fields[i].size = offsets[i + 1]
    /\ \E j \in Placed :
          /\ j + 1 \in Placed
          /\ offsets[j] + fields[j].size < offsets[j + 1]

PackOneHasNoPadding ==
    packCap = 1 =>
        /\ \A i \in Placed : offsets[i] = SumSizes(fields, i - 1)
        /\ \A i \in Placed : pads[i] = 0
        /\ pc = "done" =>
              /\ totalSize = SumSizes(fields, Len(fields))
              /\ fields = PackedStruct.fields => totalSize = 16
              /\ fields = NetworkHeader.fields => totalSize = 28
              /\ fields = DefaultAlignment.fields =>
                    offsets = <<0, 1, 5, 13>> /\ totalSize = 14

\* NetworkHeader is laid out under pack value 1.
PackOneHasNoPaddingWitness ==
    /\ pc = "done"
    /\ packCap = 1
    /\ fields = NetworkHeader.fields
    /\ offsets = <<0, 1, 2, 4, 8, 12>>

\* C6: a pack value never grows padding: the padding before each field, each
\* offset and the total size are at most those of the same fields laid out
\* with natural alignment, and a field whose natural alignment is at most
\* the pack value keeps its natural alignment.
PackNeverGrows ==
    LET natural == ComputeLayout(fields, NoPack)
    IN /\ \A i \in Placed :
             /\ pads[i] <= natural.pads[i]
             /\ offsets[i] <= natural.offsets[i]
       /\ pc = "done" => totalSize <= natural.totalSize
       /\ \A i \in 1..Len(fields) :
             (packCap # NoPack /\ fields[i].align <= packCap) =>
                 /\ EffectiveAlignment(fields[i], packCap) = fields[i].align
                 /\ i \in Placed => offsets[i] % fields[i].align = 0

\* A finished layout that a pack value made smaller, with a field narrower
\* than the pack value placed after padding.
PackNeverGrowsWitness ==
    /\ pc = "done"
    /\ packCap = 4
    /\ totalSize < ComputeLayout(fields, NoPack).totalSize
    /\ \E i \in Placed : fields[i].align < packCap /\ pads[i] > 0

PackTwoLayout ==
    (pc = "done" /\ fields = <<Char, IntType, Double, Char>> /\ packCap = 2) =>
        /\ offsets = <<0, 2, 6, 14>>
        /\ recordAlignment = 2
        /\ totalSize = 16
        /\ PaddingAfter(4) = 1

\* [byte, int, double, byte] is laid out under pack value 2.
PackTwoLayoutWitness ==
    /\ pc = "done"
    /\ fields = <<Char, IntType, Double, Char>>
    /\ packCap = 2
    /\ cursor = 15

\* The fields fs in the order given by the permutation q.
Reordered(fs, q) == [i \in 1..Len(fs) |-> fs[q[i]]]

\* fs is in descending order of natural alignment.
DescendingAlignment(fs) ==
    \A i \in 1..Len(fs) : \A j \in 1..Len(fs) : i < j => fs[i].align >= fs[j].align

FourByteAlignedLayout ==
    (pc = "done" /\ fields = FourByteAligned.fields /\ packCap = FourByteAligned.pack) =>
        /\ PaddingAfter(1) = 3
        /\ PaddingAfter(2) = 0
        /\ offsets[3] % 4 = 0
        /\ PaddingAfter(4) = 3
        /\ PaddingAfter(5) = 2

====
